---- MODULE Spec2Model ----
(***************************************************************************)
(* Model of keras_cv/metrics/coco/utils.py: the greedy IoU matcher         *)
(* (match_boxes) as a step-by-step state machine, and the bounding-box     *)
(* utilities (padding, slicing, sentinel stripping, ordering, filtering).  *)
(*                                                                         *)
(* Floating-point IoU values and thresholds are modelled in fixed point:   *)
(* values are kept in hundredths and Epsilon (the 1e-10 of line 166) is    *)
(* one unit, so that 1 - 1e-10 is a value of its own, strictly between the *)
(* next smaller level and 1.0. The code only compares these values.        *)
(* Indices are 0-based as in the source; -1 is "no match".                 *)
(***************************************************************************)
EXTENDS Integers, Sequences, FiniteSets, TLC

VARIABLES
    ious,           \* match_boxes: the IoU lookup table [gt, pred] (argument)
    threshold,      \* match_boxes: the threshold argument
    gt_matches,     \* match_boxes: TensorArray gt -> matching pred index
    pred_matches,   \* match_boxes: TensorArray pred -> matching gt index
    detection_idx,  \* match_boxes: outer loop variable
    gt_idx,         \* match_boxes: inner loop variable
    iou,            \* match_boxes: best IoU so far for the current detection
    match_index,    \* match_boxes: best ground truth so far
    pc,             \* match_boxes: position in the function body
    result,         \* match_boxes: the returned tensor (NoValue before the return)
    box_sets,       \* the box sets handed to the padding, one per image
    batch,          \* the padded batch
    index,          \* the index given to get_boxes_for_image
    image,          \* what get_boxes_for_image returned or raised
    arg,            \* the argument of filter_out_sentinels / order_by_confidence
    stripped,       \* what filter_out_sentinels returned or raised
    ordered,        \* what order_by_confidence returned or raised
    stage,          \* the last step of the pipeline that ran
    boxes,          \* the box tensor [N, 6] handed to the filters
    call,           \* the filter call made on boxes, with its arguments
    ret,            \* what the filter call returned
    invocations     \* the local variables of several match_boxes calls, one per image

matchVars == <<ious, threshold, gt_matches, pred_matches, detection_idx,
               gt_idx, iou, match_index, pc, result>>

pipelineVars == <<box_sets, batch, index, image, arg, stripped, ordered, stage>>

filterVars == <<boxes, call, ret>>

invocationVars == <<invocations>>

vars == <<matchVars, pipelineVars, filterVars, invocationVars>>

----------------------------------------------------------------------------
(* Bounds of the model *)

\* the number of images whose match_boxes calls run concurrently
MaxImages == 2

\* num_true + num_pred of the IoU tables that are explored
MaxBoxes == 4

(* Program constants *)

\* 1e-10 of line 166, one unit of the fixed-point scale
Epsilon == 1

\* the value 1.0 on the fixed-point scale: IoU values are kept in
\* hundredths, and 1 - 1e-10 is the level just below 1.0
One == 100 * Epsilon

\* the value 0.5
Half == One \div 2

\* the IoU values explored: no overlap, half, just below 1.0 and 1.0
IoUValues == {0, Half, One - Epsilon, One}

\* thresholds below 0, inside [0, 1] and above 1
Thresholds == {0 - Epsilon, One + Epsilon} \cup IoUValues

NoValue == [kind |-> "none"]

Minimum(a, b) == IF a < b THEN a ELSE b

----------------------------------------------------------------------------
(* match_boxes *)

\* tf.shape(ious)[0] and tf.shape(ious)[1]. The table is kept as a record
\* so that a table with no rows still has its number of columns.
num_true == ious.num_true

num_pred == ious.num_pred

\* ious[gt_idx, detection_idx]
IoUAt(g, d) == ious.at[<<g, d>>]

IoUTables ==
    UNION { { [num_true |-> nt, num_pred |-> np, at |-> m] :
                m \in [ (0..(nt - 1)) \X (0..(np - 1)) -> IoUValues ] } :
            <<nt, np>> \in { p \in (0..MaxBoxes) \X (0..MaxBoxes) :
                              p[1] + p[2] <= MaxBoxes } }

\* line 166: iou = tf.math.minimum(threshold, 1 - 1e-10)
ClampedThresholdNoClamp(t) == t

ClampedThresholdAboveOne(t) == t + Epsilon

ClampedThresholdIgnoringThreshold(t) == One - Epsilon

ClampedThreshold(t) == Minimum(t, One - Epsilon)

\* line 169: gt_matches.gather([gt_idx]) > -1
AlreadyMatchedOffByOne(gm, g) == gm[g] > 0

AlreadyMatchedNever(gm, g) == FALSE

AlreadyMatched(gm, g) == gm[g] > -1

\* line 174: ious[gt_idx, detection_idx] < iou
BelowBestNonStrict(value, best) == value <= best

BelowBestInverted(value, best) == value > best

BelowBest(value, best) == value < best

\* lines 142-162: both TensorArrays are created and filled with -1
MatchInit ==
    /\ ious \in IoUTables
    /\ threshold \in Thresholds
    /\ gt_matches = [g \in 0..(num_true - 1) |-> -1]
    /\ pred_matches = [d \in 0..(num_pred - 1) |-> -1]
    /\ detection_idx = 0
    /\ gt_idx = 0
    /\ iou = 0
    /\ match_index = -1
    /\ pc = "outer"
    /\ result = NoValue

\* lines 164-166: the outer loop takes the next detection
NextDetection ==
    /\ pc = "outer"
    /\ detection_idx < num_pred
    /\ match_index' = -1
    /\ iou' = ClampedThreshold(threshold)
    /\ gt_idx' = 0
    /\ pc' = "inner"
    /\ UNCHANGED <<ious, threshold, gt_matches, pred_matches, detection_idx, result>>
    /\ UNCHANGED <<pipelineVars, filterVars, invocationVars>>

\* lines 168-170: a ground truth that is already matched is passed over
SkipMatched ==
    /\ pc = "inner"
    /\ gt_idx < num_true
    /\ AlreadyMatched(gt_matches, gt_idx)
    /\ gt_idx' = gt_idx + 1
    /\ UNCHANGED <<ious, threshold, gt_matches, pred_matches, detection_idx,
                   iou, match_index, pc, result>>
    /\ UNCHANGED <<pipelineVars, filterVars, invocationVars>>

\* lines 174-175: a ground truth below the best IoU so far is passed over
SkipLowIoU ==
    /\ pc = "inner"
    /\ gt_idx < num_true
    /\ ~AlreadyMatched(gt_matches, gt_idx)
    /\ BelowBest(IoUAt(gt_idx, detection_idx), iou)
    /\ gt_idx' = gt_idx + 1
    /\ UNCHANGED <<ious, threshold, gt_matches, pred_matches, detection_idx,
                   iou, match_index, pc, result>>
    /\ UNCHANGED <<pipelineVars, filterVars, invocationVars>>

\* lines 177-178: the ground truth becomes the best candidate
TakeCandidate ==
    /\ pc = "inner"
    /\ gt_idx < num_true
    /\ ~AlreadyMatched(gt_matches, gt_idx)
    /\ ~BelowBest(IoUAt(gt_idx, detection_idx), iou)
    /\ iou' = IoUAt(gt_idx, detection_idx)
    /\ match_index' = gt_idx
    /\ gt_idx' = gt_idx + 1
    /\ UNCHANGED <<ious, threshold, gt_matches, pred_matches, detection_idx,
                   pc, result>>
    /\ UNCHANGED <<pipelineVars, filterVars, invocationVars>>

\* lines 180-184: the match is written back once the inner loop is over
WriteBackClearingIoU ==
    /\ pc = "inner"
    /\ gt_idx = num_true
    /\ pred_matches' = [pred_matches EXCEPT ![detection_idx] = match_index]
    /\ gt_matches' = IF match_index = -1
                     THEN gt_matches
                     ELSE [gt_matches EXCEPT ![match_index] = detection_idx]
    /\ ious' = IF match_index = -1
               THEN ious
               ELSE [ious EXCEPT !.at[<<match_index, detection_idx>>] = 0 - Epsilon]
    /\ detection_idx' = detection_idx + 1
    /\ pc' = "outer"
    /\ UNCHANGED <<threshold, gt_idx, iou, match_index, result>>
    /\ UNCHANGED <<pipelineVars, filterVars, invocationVars>>

WriteBack ==
    /\ pc = "inner"
    /\ gt_idx = num_true
    /\ pred_matches' = [pred_matches EXCEPT ![detection_idx] = match_index]
    /\ gt_matches' = IF match_index = -1
                     THEN gt_matches
                     ELSE [gt_matches EXCEPT ![match_index] = detection_idx]
    /\ detection_idx' = detection_idx + 1
    /\ pc' = "outer"
    /\ UNCHANGED <<ious, threshold, gt_idx, iou, match_index, result>>
    /\ UNCHANGED <<pipelineVars, filterVars, invocationVars>>

\* line 185: return pred_matches.stack()
ReturnGtMatches ==
    /\ pc = "outer"
    /\ detection_idx = num_pred
    /\ result' = [kind |-> "matches", matches |-> gt_matches]
    /\ pc' = "done"
    /\ UNCHANGED <<ious, threshold, gt_matches, pred_matches, detection_idx,
                   gt_idx, iou, match_index>>
    /\ UNCHANGED <<pipelineVars, filterVars, invocationVars>>

Return ==
    /\ pc = "outer"
    /\ detection_idx = num_pred
    /\ result' = [kind |-> "matches", matches |-> pred_matches]
    /\ pc' = "done"
    /\ UNCHANGED <<ious, threshold, gt_matches, pred_matches, detection_idx,
                   gt_idx, iou, match_index>>
    /\ UNCHANGED <<pipelineVars, filterVars, invocationVars>>

\* the match_boxes variables while only the utilities run
MatchIdle ==
    /\ ious = NoValue
    /\ threshold = NoValue
    /\ gt_matches = NoValue
    /\ pred_matches = NoValue
    /\ detection_idx = NoValue
    /\ gt_idx = NoValue
    /\ iou = NoValue
    /\ match_index = NoValue
    /\ pc = "idle"
    /\ result = NoValue

\* the pipeline variables while only something else runs
PipelineIdle ==
    /\ box_sets = NoValue
    /\ batch = NoValue
    /\ index = NoValue
    /\ image = NoValue
    /\ arg = NoValue
    /\ stripped = NoValue
    /\ ordered = NoValue
    /\ stage = "idle"

\* the filter variables while only something else runs
FilterIdle ==
    /\ boxes = NoValue
    /\ call = NoValue
    /\ ret = NoValue

\* no concurrent invocations while a single call sequence runs
InvocationsIdle == invocations = NoValue

Init == MatchInit /\ PipelineIdle /\ FilterIdle /\ InvocationsIdle

Next ==
    \/ NextDetection
    \/ SkipMatched
    \/ SkipLowIoU
    \/ TakeCandidate
    \/ WriteBack
    \/ Return

Spec == Init /\ [][Next]_vars

\* an IoU table of two ground truths (rows) and three detections (columns),
\* in hundredths
ScenarioIoU == << <<90, 10, 0>>, <<20, 80, 95>> >>

ScenarioTable ==
    [num_true |-> Len(ScenarioIoU),
     num_pred |-> Len(ScenarioIoU[1]),
     at |-> [p \in (0..(Len(ScenarioIoU) - 1)) \X (0..(Len(ScenarioIoU[1]) - 1)) |->
               ScenarioIoU[p[1] + 1][p[2] + 1] * Epsilon]]

\* lines 142-162, for the tables of IoUTables and the scenario table
ScenarioInit ==
    /\ ious \in IoUTables \cup {ScenarioTable}
    /\ threshold \in Thresholds
    /\ gt_matches = [g \in 0..(num_true - 1) |-> -1]
    /\ pred_matches = [d \in 0..(num_pred - 1) |-> -1]
    /\ detection_idx = 0
    /\ gt_idx = 0
    /\ iou = 0
    /\ match_index = -1
    /\ pc = "outer"
    /\ result = NoValue

InitScenario == ScenarioInit /\ PipelineIdle /\ FilterIdle /\ InvocationsIdle

SpecScenario == InitScenario /\ [][Next]_vars

----------------------------------------------------------------------------
(* match_boxes, lines 132-185, called for several images at once: each call
   has its own local variables, and the calls take their loop steps in any
   order *)

Images == 1..MaxImages

\* a second IoU table, of two ground truths and two detections, in hundredths
CrossedIoU == << <<50, 99>>, <<99, 0>> >>

CrossedTable ==
    [num_true |-> Len(CrossedIoU),
     num_pred |-> Len(CrossedIoU[1]),
     at |-> [p \in (0..(Len(CrossedIoU) - 1)) \X (0..(Len(CrossedIoU[1]) - 1)) |->
               CrossedIoU[p[1] + 1][p[2] + 1] * Epsilon]]

ImageTables == {ScenarioTable, CrossedTable}

ImageThresholds == {Half, One}

\* lines 142-162: the local variables of a call, before its first loop step
Invocation(table, t) ==
    [ious |-> table,
     threshold |-> t,
     gt_matches |-> [g \in 0..(table.num_true - 1) |-> -1],
     pred_matches |-> [d \in 0..(table.num_pred - 1) |-> -1],
     detection_idx |-> 0,
     gt_idx |-> 0,
     iou |-> 0,
     match_index |-> -1,
     pc |-> "outer",
     result |-> NoValue]

\* lines 164-185: the local variables of a call after its next loop step
LoopStep(s) ==
    IF s.pc = "outer"
    THEN IF s.detection_idx < s.ious.num_pred
         THEN \* lines 164-166
              [s EXCEPT !.match_index = -1,
                        !.iou = ClampedThreshold(s.threshold),
                        !.gt_idx = 0,
                        !.pc = "inner"]
         ELSE \* line 185
              [s EXCEPT !.result = [kind |-> "matches", matches |-> s.pred_matches],
                        !.pc = "done"]
    ELSE IF s.pc = "inner"
    THEN IF s.gt_idx < s.ious.num_true
         THEN IF AlreadyMatched(s.gt_matches, s.gt_idx)
              THEN \* lines 168-170
                   [s EXCEPT !.gt_idx = s.gt_idx + 1]
              ELSE IF BelowBest(s.ious.at[<<s.gt_idx, s.detection_idx>>], s.iou)
              THEN \* lines 174-175
                   [s EXCEPT !.gt_idx = s.gt_idx + 1]
              ELSE \* lines 177-178
                   [s EXCEPT !.iou = s.ious.at[<<s.gt_idx, s.detection_idx>>],
                             !.match_index = s.gt_idx,
                             !.gt_idx = s.gt_idx + 1]
         ELSE \* lines 180-184
              [s EXCEPT !.pred_matches[s.detection_idx] = s.match_index,
                        !.gt_matches =
                            IF s.match_index = -1
                            THEN s.gt_matches
                            ELSE [s.gt_matches EXCEPT ![s.match_index] = s.detection_idx],
                        !.detection_idx = s.detection_idx + 1,
                        !.pc = "outer"]
    ELSE s

ConcurrentInit ==
    invocations \in [Images -> { Invocation(table, t) :
                                   table \in ImageTables, t \in ImageThresholds }]

\* the call for image k takes a step, and what it writes to gt_matches is
\* seen by the calls for the other images
InvocationStepSharingGtMatches(k) ==
    /\ invocations[k].pc # "done"
    /\ invocations' =
         [i \in Images |->
            IF i = k
            THEN LoopStep(invocations[k])
            ELSE [invocations[i] EXCEPT
                    !.gt_matches = LoopStep(invocations[k]).gt_matches]]
    /\ UNCHANGED <<matchVars, pipelineVars, filterVars>>

\* the call for image k takes its next loop step
InvocationStep(k) ==
    /\ invocations[k].pc # "done"
    /\ invocations' = [invocations EXCEPT ![k] = LoopStep(invocations[k])]
    /\ UNCHANGED <<matchVars, pipelineVars, filterVars>>

InitConcurrent == MatchIdle /\ PipelineIdle /\ FilterIdle /\ ConcurrentInit

NextConcurrent == \E k \in Images : InvocationStep(k)

SpecConcurrent == InitConcurrent /\ [][NextConcurrent]_vars

----------------------------------------------------------------------------
(* Properties of match_boxes *)

Detections == 0..(num_pred - 1)

GroundTruths == 0..(num_true - 1)

\* the predicted boxes that hold a match
MatchedDetections == { d \in Detections : pred_matches[d] # -1 }

\* the inner loop has scanned every ground truth for detection_idx, and the
\* result has not been written back yet
ScanDone == pc = "inner" /\ gt_idx = num_true

\* the ground truths that are unmatched while detection_idx is processed
Unmatched == { g \in GroundTruths : gt_matches[g] = -1 }

\* the unmatched ground truths that reach the clamped threshold
Qualifying ==
    { g \in Unmatched :
        IoUAt(g, detection_idx) >= Minimum(threshold, One - Epsilon) }

\* the qualifying ground truths whose IoU with detection_idx is the largest
BestQualifying ==
    { g \in Qualifying :
        \A h \in Qualifying : IoUAt(h, detection_idx) <= IoUAt(g, detection_idx) }

SetMin(S) == CHOOSE x \in S : \A y \in S : x <= y

SetMax(S) == CHOOSE x \in S : \A y \in S : y <= x

C2_MatchesOneToOne ==
    /\ Cardinality(MatchedDetections) <= Minimum(num_true, num_pred)
    /\ \A d1, d2 \in MatchedDetections :
          pred_matches[d1] = pred_matches[d2] => d1 = d2

\* C2 witness: the function has returned, and a prediction was left unmatched
\* although a ground truth claimed by an earlier prediction reaches the
\* threshold with it.
C2_Witness ==
    /\ pc = "done"
    /\ \E d \in Detections :
         /\ pred_matches[d] = -1
         /\ \E e \in MatchedDetections :
              /\ e < d
              /\ IoUAt(pred_matches[e], d) >= threshold
              /\ threshold <= One - Epsilon

\* C3 (as stated): when the scan of a detection ends and two or more
\* unmatched ground truths share the largest qualifying IoU, the candidate
\* is the one with the lowest index.
C3_TieKeepsLowestIndex ==
    (ScanDone /\ Cardinality(BestQualifying) >= 2)
      => match_index = SetMin(BestQualifying)

\* C3 (amended): when the scan of a detection ends and two or more unmatched
\* ground truths share the largest qualifying IoU, the candidate is the one
\* with the highest index (the last one scanned).
C3_TieKeepsHighestIndex ==
    (ScanDone /\ Cardinality(BestQualifying) >= 2)
      => match_index = SetMax(BestQualifying)

\* C3 witness: a scan has ended with a tie for the largest qualifying IoU.
C3_Witness == ScanDone /\ Cardinality(BestQualifying) >= 2

\* C12: the sequence match_boxes returns has exactly numPredicted entries,
\* each of them -1 or a ground-truth index in 0..numGroundTruth-1; with no
\* ground truth every entry is -1, and with no prediction it is empty.
C12_ResultShape ==
    pc = "done"
      => /\ result.kind = "matches"
         /\ DOMAIN result.matches = Detections
         /\ \A d \in Detections : result.matches[d] \in {-1} \cup GroundTruths
         /\ num_true = 0 => \A d \in Detections : result.matches[d] = -1
         /\ num_pred = 0 => DOMAIN result.matches = {}

\* C12 witness: the function has returned a sequence that holds both a
\* ground-truth index and -1, for fewer ground truths than predictions.
C12_Witness ==
    /\ pc = "done"
    /\ num_true < num_pred
    /\ \E d, e \in Detections : result.matches[d] = -1 /\ result.matches[e] # -1

\* C15: when the scan for prediction j ends, with U the ground truths that
\* are unmatched and b = min(threshold, 1 - epsilon), the candidate is -1
\* exactly when no i in U has iou[i][j] >= b; otherwise it is an i in U whose
\* iou[i][j] is the largest over U.  The candidate is what is written to
\* matches[j].
C15_GreedyStep ==
    /\ ScanDone
         => /\ match_index = -1
                 <=> \A g \in Unmatched :
                        IoUAt(g, detection_idx) < Minimum(threshold, One - Epsilon)
            /\ match_index # -1
                 => /\ match_index \in Unmatched
                    /\ \A g \in Unmatched :
                         IoUAt(g, detection_idx) <= IoUAt(match_index, detection_idx)
    /\ (pc = "outer" /\ detection_idx > 0)
         => pred_matches[detection_idx - 1] = match_index

\* C15 witness: a scan has ended with a candidate although another unmatched
\* ground truth reaches the bound with a smaller IoU.
C15_Witness ==
    /\ ScanDone
    /\ match_index # -1
    /\ \E g \in Qualifying :
         IoUAt(g, detection_idx) < IoUAt(match_index, detection_idx)

\* C16: a ground truth only moves from unmatched to matched: once claimed
\* it keeps its prediction, no later prediction is given a ground truth that
\* is already claimed (whatever its IoU), and an entry of matches that was
\* written is not written again.  For the IoU table [[0.9, 0.1, 0.0],
\* [0.2, 0.8, 0.95]] and threshold 0.5 the result is [0, 1, -1].
C16_ClaimsArePermanent ==
    /\ [][/\ \A g \in GroundTruths :
               gt_matches[g] # -1 => gt_matches'[g] = gt_matches[g]
          /\ \A d \in Detections :
               /\ d < detection_idx => pred_matches'[d] = pred_matches[d]
               /\ (pred_matches'[d] # pred_matches[d])
                    => gt_matches[pred_matches'[d]] = -1]_vars
    /\ []((pc = "done" /\ ious = ScenarioTable /\ threshold = Half)
            => /\ result.matches[0] = 0
               /\ result.matches[1] = 1
               /\ result.matches[2] = -1)

\* C16 witness: the function has returned for the scenario table under
\* threshold 0.5, where the last detection has its largest IoU with a ground
\* truth that an earlier detection claimed.
C16_Witness ==
    /\ pc = "done"
    /\ ious = ScenarioTable
    /\ threshold = Half
    /\ IoUAt(1, 2) > IoUAt(1, 1)
    /\ gt_matches[1] = 1

\* C17: with a threshold of exactly 1, a prediction for which some unmatched
\* ground truth has an IoU of exactly 1 gets a match.
C17_ThresholdOneMatchesPerfectOverlap ==
    (ScanDone /\ threshold = One
       /\ \E g \in Unmatched : IoUAt(g, detection_idx) = One)
      => match_index # -1

\* C17 witness: a scan under threshold 1 has ended with a candidate of IoU 1.
C17_Witness ==
    /\ ScanDone
    /\ threshold = One
    /\ match_index # -1
    /\ IoUAt(match_index, detection_idx) = One

\* C18: with a threshold of 0 or less, a prediction for which some unmatched
\* ground truth has a positive IoU gets a match.
C18_NonPositiveThresholdMatchesAnyOverlap ==
    (ScanDone /\ threshold <= 0
       /\ \E g \in Unmatched : IoUAt(g, detection_idx) > 0)
      => match_index # -1

\* C18 witness: a scan under a negative threshold has ended with a candidate
\* whose IoU is positive and below 1 - epsilon.
C18_Witness ==
    /\ ScanDone
    /\ threshold < 0
    /\ match_index # -1
    /\ IoUAt(match_index, detection_idx) > 0
    /\ IoUAt(match_index, detection_idx) < One - Epsilon

----------------------------------------------------------------------------
(* Tensors *)

\* A tensor is its rank and its elements along the first axis; an element of
\* a rank-2 tensor is a row (a tuple), an element of a rank-1 tensor a number.
Tensor(rank, rows) == [rank |-> rank, rows |-> rows]

RECURSIVE WhereFrom(_, _)
WhereFrom(mask, i) ==
    IF i > Len(mask)
    THEN <<>>
    ELSE (IF mask[i] THEN <<i - 1>> ELSE <<>>) \o WhereFrom(mask, i + 1)

Range(f) == { f[i] : i \in DOMAIN f }

\* tf.where(mask) on a rank-1 mask: the 0-based positions that are true, in
\* ascending order
Where(mask) == WhereFrom(mask, 1)

\* tf.gather_nd(t, inds) with the indices of Where: the elements of t at
\* these positions, in the order of inds
GatherNd(t, inds) == Tensor(t.rank, [k \in 1..Len(inds) |-> t.rows[inds[k] + 1]])

----------------------------------------------------------------------------
(* Filters on a box tensor [N, 6]: left, top, right, bottom, class, confidence *)

\* bounding_box.XYXY, the corner format of lines 33-34 (0-based columns)
XYXY_LEFT == 0

XYXY_TOP == 1

XYXY_RIGHT == 2

XYXY_BOTTOM == 3

\* the default of the axis parameter of filter_boxes
DefaultAxis == 4

\* boxes[..., column]: the column of every row
Column(t, column) == [i \in 1..Len(t.rows) |-> t.rows[i][column + 1]]

\* lines 33-35: w * h, elementwise
bounding_box_area(t) ==
    LET w == [i \in 1..Len(t.rows) |->
                Column(t, XYXY_RIGHT)[i] - Column(t, XYXY_LEFT)[i]]
        h == [i \in 1..Len(t.rows) |->
                Column(t, XYXY_BOTTOM)[i] - Column(t, XYXY_TOP)[i]]
    IN  [i \in 1..Len(t.rows) |-> w[i] * h[i]]

\* line 22: areas >= min_area and areas < max_area
InAreaRangeUpperInclusive(area, min_area, max_area) ==
    area >= min_area /\ area <= max_area

InAreaRange(area, min_area, max_area) == area >= min_area /\ area < max_area

\* line 22: inds = tf.where(...)
AreaRangeInds(t, min_area, max_area) ==
    LET areas == bounding_box_area(t)
    IN  Where([i \in 1..Len(areas) |-> InAreaRange(areas[i], min_area, max_area)])

\* lines 20-23
filter_boxes_by_area_range(t, min_area, max_area) ==
    GatherNd(t, AreaRangeInds(t, min_area, max_area))

\* line 49: boxes[:, axis] == value, for one row
AxisEqualsOneBased(row, value, axis) == row[axis] = value

AxisEquals(row, value, axis) == row[axis + 1] = value

\* line 49: tf.where(boxes[:, axis] == value)
AxisInds(t, value, axis) ==
    Where([i \in 1..Len(t.rows) |-> AxisEquals(t.rows[i], value, axis)])

\* lines 38-49
filter_boxes(t, value, axis) == GatherNd(t, AxisInds(t, value, axis))

(* Inputs of the filters *)

\* the longest box tensor handed to the filters
MaxFilterRows == 4

\* rows of a box tensor: areas 2, 4, 0, 4, -2 (corners out of order) and the
\* sentinel row
FilterRowPool ==
    { <<0, 0, 1, 2, 1, 7>>,
      <<0, 0, 2, 2, 1, 8>>,
      <<1, 1, 1, 3, 2, 9>>,
      <<1, 0, 3, 2, 2, 6>>,
      <<2, 0, 0, 1, 1, 5>>,
      <<-1, -1, -1, -1, -1, -1>> }

AreaBounds == {-2, 0, 2, 4, 6}

FilterValues == {-1, 1, 2, 3}

SeqsUpTo(S, n) == UNION { [1..k -> S] : k \in 0..n }

FilterInit ==
    /\ boxes \in { Tensor(2, rows) : rows \in SeqsUpTo(FilterRowPool, MaxFilterRows) }
    /\ call = NoValue
    /\ ret = NoValue

\* a call filter_boxes(boxes, value), axis left at its default
CallFilterBoxes ==
    /\ call = NoValue
    /\ \E value \in FilterValues :
         /\ call' = [op |-> "filter_boxes", value |-> value]
         /\ ret' = filter_boxes(boxes, value, DefaultAxis)
    /\ UNCHANGED <<boxes, matchVars, pipelineVars, invocationVars>>

\* a call filter_boxes_by_area_range(boxes, min_area, max_area)
CallFilterBoxesByAreaRange ==
    /\ call = NoValue
    /\ \E min_area \in AreaBounds, max_area \in AreaBounds :
         /\ call' = [op |-> "filter_boxes_by_area_range",
                     min_area |-> min_area, max_area |-> max_area]
         /\ ret' = filter_boxes_by_area_range(boxes, min_area, max_area)
    /\ UNCHANGED <<boxes, matchVars, pipelineVars, invocationVars>>

InitFilter == MatchIdle /\ PipelineIdle /\ FilterInit /\ InvocationsIdle

NextFilter ==
    \/ CallFilterBoxes
    \/ CallFilterBoxesByAreaRange

SpecFilter == InitFilter /\ [][NextFilter]_vars

----------------------------------------------------------------------------
(* Box sets as dictionaries: boxes [N, 4], classes [N], confidence [N] *)

\* the exceptions the utilities raise
Raised(exception, message) == [error |-> exception, message |-> message]

\* line 105: raise ValueError("Expected `bounding_boxes` to contain key 'confidence'")
MissingField == Raised("ValueError", "expected key 'confidence'")

\* line 115: raise ValueError("... should only accept a single batch ...")
InvalidShape == Raised("ValueError", "should only accept a single batch")

\* line 119: preds_for_img is bound nowhere in the function or the module
UndefinedName == Raised("NameError", "name 'preds_for_img' is not defined")

\* lines 69 and 87: bounding_boxes["confidence"] on a dictionary without the key
MissingKey == Raised("KeyError", "confidence")

\* lines 71-73: tensor[index, ...] with the index outside the first axis
IndexOutOfRange == Raised("InvalidArgumentError", "slice index out of bounds")

IsError(v) == "error" \in DOMAIN v

HasConfidence(bounding_boxes) == "confidence" \in DOMAIN bounding_boxes

\* the value to_tensor fills with (default_value of line 63)
DefaultValue == -1

Maximum(S) == IF S = {} THEN 0 ELSE CHOOSE x \in S : \A y \in S : y <= x

\* what a missing element of the ragged stack is filled with: the default
\* value, repeated over the inner axis of the rows when the tensors have one
Fill(tensors) ==
    IF \A k \in 1..Len(tensors) : tensors[k].rank = 1
    THEN DefaultValue
    ELSE LET t == CHOOSE t \in Range(tensors) : Len(t.rows) > 0
         IN  [c \in 1..Len(t.rows[1]) |-> DefaultValue]

\* where the elements of a set are placed in its padded row of the batch
PaddedAtFront(rows, n, fill) ==
    [i \in 1..n |-> IF i <= n - Len(rows) THEN fill ELSE rows[i - (n - Len(rows))]]

PaddedAtEnd(rows, n, fill) ==
    [i \in 1..n |-> IF i <= Len(rows) THEN rows[i] ELSE fill]

\* lines 52-63: tf.ragged.stack(box_sets).to_tensor(default_value=-1), for a
\* non-empty list of tensors of one rank
to_sentinel_padded_bounding_box_tensor(tensors) ==
    LET n == Maximum({ Len(tensors[k].rows) : k \in 1..Len(tensors) })
    IN  Tensor(tensors[1].rank + 1,
               [k \in 1..Len(tensors) |->
                  PaddedAtEnd(tensors[k].rows, n, Fill(tensors))])

\* whether tensor[index, ...] is inside the first axis; a negative index
\* counts from the end
IndexInRangeNonNegativeOnly(t, i) == 0 <= i /\ i < Len(t.rows)

IndexInRange(t, i) == 0 - Len(t.rows) <= i /\ i < Len(t.rows)

\* tensor[index, ...]: the element at index along the first axis
SliceFirstAxis(t, i) ==
    Tensor(t.rank - 1, t.rows[IF i < 0 THEN Len(t.rows) + i + 1 ELSE i + 1])

\* lines 66-74
get_boxes_for_image(bounding_boxes, i) ==
    IF ~HasConfidence(bounding_boxes)
    THEN MissingKey
    ELSE IF \/ ~IndexInRange(bounding_boxes.boxes, i)
            \/ ~IndexInRange(bounding_boxes.classes, i)
            \/ ~IndexInRange(bounding_boxes.confidence, i)
    THEN IndexOutOfRange
    ELSE [boxes |-> SliceFirstAxis(bounding_boxes.boxes, i),
          classes |-> SliceFirstAxis(bounding_boxes.classes, i),
          confidence |-> SliceFirstAxis(bounding_boxes.confidence, i)]

\* lines 90 and 92: tf.gather_nd with an index past the end of the tensor
GatherOutOfBounds == Raised("InvalidArgumentError", "indices out of bounds")

\* where the kernels of tf.gather_nd can run
Devices == {"CPU", "GPU"}

IndicesInBounds(t, inds) == \A k \in 1..Len(inds) : inds[k] < Len(t.rows)

\* an element of zeros of the tensor: a number, or a box of four corners
ZeroElement(t) == IF t.rank = 1 THEN 0 ELSE <<0, 0, 0, 0>>

\* tf.gather_nd(t, inds) on a device: with an index out of bounds the CPU
\* kernel raises and the GPU kernel stores zeros at that position
GatherNdOn(t, inds, device) ==
    IF IndicesInBounds(t, inds)
    THEN GatherNd(t, inds)
    ELSE IF device = "CPU"
    THEN GatherOutOfBounds
    ELSE Tensor(t.rank,
                [k \in 1..Len(inds) |->
                   IF inds[k] < Len(t.rows) THEN t.rows[inds[k] + 1]
                                            ELSE ZeroElement(t)])

\* line 88: classes != -1, for one class
NotSentinelPositiveOnly(class) == class > 0

NotSentinel(class) == class # -1

\* lines 77-93
filter_out_sentinels(bounding_boxes, device) ==
    IF ~HasConfidence(bounding_boxes)
    THEN MissingKey
    ELSE LET classes == bounding_boxes.classes
             indices == Where([i \in 1..Len(classes.rows) |->
                                 NotSentinel(classes.rows[i])])
             gathered_boxes == GatherNdOn(bounding_boxes.boxes, indices, device)
             gathered_confidence ==
                 GatherNdOn(bounding_boxes.confidence, indices, device)
         IN  IF IsError(gathered_boxes)
             THEN gathered_boxes
             ELSE IF IsError(gathered_confidence)
             THEN gathered_confidence
             ELSE [boxes |-> gathered_boxes,
                   classes |-> GatherNd(bounding_boxes.classes, indices),
                   confidence |-> gathered_confidence]

\* lines 104-118: the two checks at the entry of order_by_confidence
EntryChecksShapeFirst(bounding_boxes) ==
    IF bounding_boxes.boxes.rank # 2
    THEN InvalidShape
    ELSE IF ~HasConfidence(bounding_boxes)
    THEN MissingField
    ELSE NoValue

EntryChecks(bounding_boxes) ==
    IF ~HasConfidence(bounding_boxes)
    THEN MissingField
    ELSE IF bounding_boxes.boxes.rank # 2
    THEN InvalidShape
    ELSE NoValue

\* lines 96-129. Line 119 reads preds_for_img, a name bound neither in the
\* function nor in the module, before top_k is called: the call raises
\* NameError and lines 121-129 are never reached.
order_by_confidence(bounding_boxes) ==
    IF EntryChecks(bounding_boxes) # NoValue
    THEN EntryChecks(bounding_boxes)
    ELSE UndefinedName

(* Inputs of the pipeline *)

\* the most box sets in one batch
MaxSets == 2

\* the most rows of all box sets of one batch together
MaxTotalRows == 3

\* rows of a box set: two real boxes (classes 1 and 0) and a sentinel row
PipelineRowPool ==
    { [box |-> <<0, 0, 2, 2>>, class |-> 1, confidence |-> 1],
      [box |-> <<1, 1, 2, 3>>, class |-> 0, confidence |-> 2],
      [box |-> <<-1, -1, -1, -1>>, class |-> -1, confidence |-> -1] }

\* the dictionary of a box set, with or without its confidence
BoxSetOf(rows, with_confidence) ==
    LET bs == Tensor(2, [i \in 1..Len(rows) |-> rows[i].box])
        cs == Tensor(1, [i \in 1..Len(rows) |-> rows[i].class])
        fs == Tensor(1, [i \in 1..Len(rows) |-> rows[i].confidence])
    IN  IF with_confidence
        THEN [boxes |-> bs, classes |-> cs, confidence |-> fs]
        ELSE [boxes |-> bs, classes |-> cs]

RECURSIVE SumTo(_, _)
SumTo(v, k) == IF k = 0 THEN 0 ELSE v[k] + SumTo(v, k - 1)

\* the ways to cut n rows into 1..MaxSets consecutive box sets
Cuts(n) ==
    UNION { { v \in [1..k -> 0..n] : SumTo(v, k) = n } : k \in 1..MaxSets }

\* the rows cut into box sets of the lengths v
CutRows(rows, v, with_confidence) ==
    [k \in 1..Len(v) |->
       BoxSetOf(SubSeq(rows, SumTo(v, k - 1) + 1, SumTo(v, k)), with_confidence)]

BoxSetLists ==
    UNION { { CutRows(rows, v, with_confidence) :
                v \in Cuts(Len(rows)), with_confidence \in BOOLEAN } :
            rows \in SeqsUpTo(PipelineRowPool, MaxTotalRows) }

PipelineInit ==
    /\ box_sets \in BoxSetLists
    /\ batch = NoValue
    /\ index = NoValue
    /\ image = NoValue
    /\ arg = NoValue
    /\ stripped = NoValue
    /\ ordered = NoValue
    /\ stage = "start"

\* the fields of the box sets, each padded by to_sentinel_padded_bounding_box_tensor
PaddedField(sets, field) ==
    to_sentinel_padded_bounding_box_tensor([k \in 1..Len(sets) |-> sets[k][field]])

\* the batch is assembled: every field of the box sets is padded
Pad ==
    /\ stage = "start"
    /\ batch' = IF HasConfidence(box_sets[1])
                THEN [boxes |-> PaddedField(box_sets, "boxes"),
                      classes |-> PaddedField(box_sets, "classes"),
                      confidence |-> PaddedField(box_sets, "confidence")]
                ELSE [boxes |-> PaddedField(box_sets, "boxes"),
                      classes |-> PaddedField(box_sets, "classes")]
    /\ stage' = "padded"
    /\ UNCHANGED <<box_sets, index, image, arg, stripped, ordered>>
    /\ UNCHANGED <<matchVars, filterVars, invocationVars>>

\* a call get_boxes_for_image(batch, i)
GetBoxesForImage ==
    /\ stage = "padded"
    /\ \E i \in (0 - (MaxSets + 1))..MaxSets :
         /\ index' = i
         /\ image' = get_boxes_for_image(batch, i)
    /\ stage' = "sliced"
    /\ UNCHANGED <<box_sets, batch, arg, stripped, ordered>>
    /\ UNCHANGED <<matchVars, filterVars, invocationVars>>

\* the box sets a single-image operation can be handed at this point
SingleImageInputs ==
    CASE stage = "start" -> Range(box_sets)
      [] stage = "sliced" -> IF IsError(image) THEN {} ELSE {image}
      [] OTHER -> {}

\* a call filter_out_sentinels(bounding_boxes)
FilterOutSentinels ==
    /\ \E bounding_boxes \in SingleImageInputs, device \in Devices :
         /\ arg' = bounding_boxes
         /\ stripped' = filter_out_sentinels(bounding_boxes, device)
    /\ stage' = "stripped"
    /\ UNCHANGED <<box_sets, batch, index, image, ordered>>
    /\ UNCHANGED <<matchVars, filterVars, invocationVars>>

\* a call order_by_confidence(bounding_boxes), on a box set, on the stripped
\* box set or on the whole batch
OrderByConfidence ==
    /\ \E bounding_boxes \in
           SingleImageInputs
             \cup (IF stage = "padded" THEN {batch} ELSE {})
             \cup (IF stage = "stripped" /\ ~IsError(stripped) THEN {stripped} ELSE {}) :
         /\ arg' = bounding_boxes
         /\ ordered' = order_by_confidence(bounding_boxes)
    /\ stage' = "ordered"
    /\ UNCHANGED <<box_sets, batch, index, image, stripped>>
    /\ UNCHANGED <<matchVars, filterVars, invocationVars>>

InitPipeline == MatchIdle /\ PipelineInit /\ FilterIdle /\ InvocationsIdle

NextPipeline ==
    \/ Pad
    \/ GetBoxesForImage
    \/ FilterOutSentinels
    \/ OrderByConfidence

SpecPipeline == InitPipeline /\ [][NextPipeline]_vars

(* Box sets whose parallel sequences have unequal lengths *)

\* the first n rows of a sequence
Prefix(rows, n) == SubSeq(rows, 1, n)

\* a box set with confidence made of the first nb boxes, nc classes and nf
\* confidences of the rows
MisalignedBoxSet(rows, nb, nc, nf) ==
    [boxes |-> Prefix(BoxSetOf(rows, TRUE).boxes.rows, nb),
     classes |-> Prefix(BoxSetOf(rows, TRUE).classes.rows, nc),
     confidence |-> Prefix(BoxSetOf(rows, TRUE).confidence.rows, nf)]

MisalignedBoxSets ==
    UNION { { [boxes |-> Tensor(2, MisalignedBoxSet(rows, n[1], n[2], n[3]).boxes),
               classes |-> Tensor(1, MisalignedBoxSet(rows, n[1], n[2], n[3]).classes),
               confidence |->
                   Tensor(1, MisalignedBoxSet(rows, n[1], n[2], n[3]).confidence)] :
                n \in { m \in (0..Len(rows)) \X (0..Len(rows)) \X (0..Len(rows)) :
                          ~(m[1] = m[2] /\ m[2] = m[3]) } } :
            rows \in SeqsUpTo(PipelineRowPool, MaxTotalRows) }

\* the pipeline is handed one box set whose sequences are misaligned
ShapeInit ==
    /\ box_sets \in { <<bounding_boxes>> : bounding_boxes \in MisalignedBoxSets }
    /\ batch = NoValue
    /\ index = NoValue
    /\ image = NoValue
    /\ arg = NoValue
    /\ stripped = NoValue
    /\ ordered = NoValue
    /\ stage = "start"

InitShape == MatchIdle /\ ShapeInit /\ FilterIdle /\ InvocationsIdle

SpecShape == InitShape /\ [][NextPipeline]_vars

(* Every operation of the module, one call sequence at a time *)

InitAll == Init \/ InitFilter \/ InitPipeline \/ InitScenario

\* the operations that can run are those of the call sequence under way
NextAll ==
    \/ pc # "idle" /\ Next
    \/ boxes # NoValue /\ NextFilter
    \/ stage # "idle" /\ NextPipeline

SpecAll == InitAll /\ [][NextAll]_vars

----------------------------------------------------------------------------
(* Properties of the filters *)

FilterCalled(op) == call # NoValue /\ call.op = op

\* the area of a row, from its corners
RowArea(row) == (row[3] - row[1]) * (row[4] - row[2])

\* the 0-based positions of the rows of boxes whose area is in [lo, hi)
RowsWithAreaIn(lo, hi) ==
    { i - 1 : i \in { j \in 1..Len(boxes.rows) :
                        lo <= RowArea(boxes.rows[j]) /\ RowArea(boxes.rows[j]) < hi } }

\* C7: filter_boxes_by_area_range(boxes, b, c) returns exactly the rows with
\* b <= area < c, in their order; for every a < b < c the rows kept for [a, b)
\* and for [b, c) are disjoint and together are the rows kept for [a, c); a
\* row whose area is b is kept for [b, c) and not for [a, b).
C7_AreaRangePartition ==
    FilterCalled("filter_boxes_by_area_range") =>
      LET b == call.min_area
          c == call.max_area
          InRange(row) == b <= RowArea(row) /\ RowArea(row) < c
      IN  /\ ret = Tensor(2, SelectSeq(boxes.rows, InRange))
          /\ Range(AreaRangeInds(boxes, b, c)) = RowsWithAreaIn(b, c)
          /\ \A a \in AreaBounds :
               (a < b /\ b < c) =>
                 /\ Range(AreaRangeInds(boxes, a, b))
                      \cap Range(AreaRangeInds(boxes, b, c)) = {}
                 /\ Range(AreaRangeInds(boxes, a, b))
                      \cup Range(AreaRangeInds(boxes, b, c))
                      = Range(AreaRangeInds(boxes, a, c))
                 /\ \A i \in 1..Len(boxes.rows) :
                      RowArea(boxes.rows[i]) = b =>
                        /\ (i - 1) \in Range(AreaRangeInds(boxes, b, c))
                        /\ (i - 1) \notin Range(AreaRangeInds(boxes, a, b))

\* C7 witness: the filter has run on a range [b, c) with a lower bucket
\* [a, b) below it, on boxes that hold a row of area b, a row of area c and a
\* row of area in [a, b).
C7_Witness ==
    /\ FilterCalled("filter_boxes_by_area_range")
    /\ call.min_area < call.max_area
    /\ \E a \in AreaBounds :
         /\ a < call.min_area
         /\ \E i \in 1..Len(boxes.rows) :
              a <= RowArea(boxes.rows[i]) /\ RowArea(boxes.rows[i]) < call.min_area
    /\ \E i \in 1..Len(boxes.rows) : RowArea(boxes.rows[i]) = call.min_area
    /\ \E i \in 1..Len(boxes.rows) : RowArea(boxes.rows[i]) = call.max_area
    /\ Len(ret.rows) < Len(boxes.rows)

\* C9: filter_boxes(boxes, target) returns exactly the rows whose class is
\* target, in their order (none when no row matches); a sentinel row is in
\* the result only when target is -1; for classes [1, -1, 2, 1] and target 1
\* the rows kept are those at positions [0, 3].
C9_FilterByClass ==
    FilterCalled("filter_boxes") =>
      LET HasClass(row) == row[5] = call.value
      IN  /\ ret = Tensor(2, SelectSeq(boxes.rows, HasClass))
          /\ ((\A i \in 1..Len(boxes.rows) : boxes.rows[i][5] # call.value)
                => ret.rows = <<>>)
          /\ ((\E k \in 1..Len(ret.rows) : ret.rows[k][5] = -1) => call.value = -1)
          /\ ((call.value = 1 /\ Len(boxes.rows) = 4
                /\ [i \in 1..4 |-> boxes.rows[i][5]] = <<1, -1, 2, 1>>)
                => /\ AxisInds(boxes, call.value, DefaultAxis) = <<0, 3>>
                   /\ ret.rows = <<boxes.rows[1], boxes.rows[4]>>)

\* C9 witness: filter_boxes has run with target 1 on classes [1, -1, 2, 1].
C9_Witness ==
    /\ FilterCalled("filter_boxes")
    /\ call.value = 1
    /\ Len(boxes.rows) = 4
    /\ [i \in 1..4 |-> boxes.rows[i][5]] = <<1, -1, 2, 1>>
    /\ boxes.rows[1] # boxes.rows[4]

----------------------------------------------------------------------------
(* Properties of the pipeline *)

\* the number of rows of a box set
NumRows(bounding_boxes) == Len(bounding_boxes.boxes.rows)

\* the longest box set handed to the padding
MaxRowsOfSets == Maximum({ NumRows(box_sets[k]) : k \in 1..Len(box_sets) })

\* the rows of one field of a box set followed by sentinels, up to n rows
WithSentinels(rows, n, sentinel) ==
    rows \o [i \in 1..(n - Len(rows)) |-> sentinel]

\* box set k of the input with sentinel rows appended up to the longest set
PaddedSet(k) ==
    [boxes |-> Tensor(2, WithSentinels(box_sets[k].boxes.rows, MaxRowsOfSets,
                                       <<-1, -1, -1, -1>>)),
     classes |-> Tensor(1, WithSentinels(box_sets[k].classes.rows, MaxRowsOfSets, -1)),
     confidence |-> Tensor(1, WithSentinels(box_sets[k].confidence.rows,
                                            MaxRowsOfSets, -1))]

\* order_by_confidence has been called on a single image's box set that has
\* a confidence sequence
OrderedSingleImage ==
    /\ stage = "ordered"
    /\ HasConfidence(arg)
    /\ arg.boxes.rank = 2

\* C4: for every single-image box set with a confidence sequence,
\* order_by_confidence returns a box set whose confidence is non-increasing
\* and whose boxes, classes and confidence are the input rearranged by one
\* and the same permutation.
C4_OrderedByConfidence ==
    OrderedSingleImage =>
      /\ ~IsError(ordered)
      /\ \A i \in 1..(NumRows(ordered) - 1) :
           ordered.confidence.rows[i] >= ordered.confidence.rows[i + 1]
      /\ NumRows(ordered) = NumRows(arg)
      /\ \E perm \in Permutations(1..NumRows(arg)) :
           \A i \in 1..NumRows(arg) :
             /\ ordered.boxes.rows[i] = arg.boxes.rows[perm[i]]
             /\ ordered.classes.rows[i] = arg.classes.rows[perm[i]]
             /\ ordered.confidence.rows[i] = arg.confidence.rows[perm[i]]

\* C5: order_by_confidence returns no box set for malformed input: the
\* missing-confidence error when the confidence sequence is absent, the
\* invalid-shape error when boxes has a rank other than 2, and the
\* missing-confidence error when both defects are present.
C5_OrderRejectsMalformed ==
    stage = "ordered" =>
      /\ ~HasConfidence(arg) => ordered = MissingField
      /\ (HasConfidence(arg) /\ arg.boxes.rank # 2) => ordered = InvalidShape
      /\ (~HasConfidence(arg) \/ arg.boxes.rank # 2) => IsError(ordered)

\* C5 witness: order_by_confidence has been called on a batch (rank 3)
\* without confidence, and on nothing else.
C5_Witness ==
    /\ stage = "ordered"
    /\ ~HasConfidence(arg)
    /\ arg.boxes.rank = 3
    /\ ordered = MissingField

\* the collection [S] has been padded, sliced at index 0 and stripped
RoundTripDone ==
    /\ stage = "stripped"
    /\ image # NoValue
    /\ index = 0
    /\ Len(box_sets) = 1

\* the collection [S] has been padded and sliced at index 0
RoundTripSliced ==
    /\ stage = "sliced"
    /\ index = 0
    /\ Len(box_sets) = 1

FieldsOf(bounding_boxes) == DOMAIN bounding_boxes

\* C10: in the padded batch every set has exactly max_k N_k rows, the first
\* N_k rows of set k are its own rows in their order, and every row after
\* them is a sentinel row, all of whose values are -1.
C10_PaddedToLongest ==
    batch # NoValue =>
      /\ FieldsOf(batch) = FieldsOf(box_sets[1])
      /\ \A field \in FieldsOf(batch) :
           /\ Len(batch[field].rows) = Len(box_sets)
           /\ \A k \in 1..Len(box_sets) :
                LET padded == batch[field].rows[k]
                    own == box_sets[k][field].rows
                IN  /\ Len(padded) = MaxRowsOfSets
                    /\ \A i \in 1..Len(own) : padded[i] = own[i]
                    /\ \A i \in (Len(own) + 1)..Len(padded) :
                         padded[i] = IF field = "boxes"
                                     THEN <<-1, -1, -1, -1>>
                                     ELSE -1

\* C10 witness: a batch has been padded in which a non-empty set is shorter
\* than the longest one.
C10_Witness ==
    /\ batch # NoValue
    /\ \E k \in 1..Len(box_sets) :
         /\ NumRows(box_sets[k]) > 0
         /\ NumRows(box_sets[k]) < MaxRowsOfSets
         /\ box_sets[k].classes.rows[1] # -1

----------------------------------------------------------------------------
(* Properties of filter_out_sentinels and of misaligned box sets *)

\* the rows at the positions where the class is not -1, in their order
RECURSIVE RowsOfRealBoxes(_, _, _)
RowsOfRealBoxes(rows, classes, n) ==
    IF n = 0
    THEN <<>>
    ELSE IF classes[n] # -1
    THEN Append(RowsOfRealBoxes(rows, classes, n - 1), rows[n])
    ELSE RowsOfRealBoxes(rows, classes, n - 1)

\* C11: filter_out_sentinels returns, for every field of the box set handed
\* to it (boxes, classes, and confidence when present), exactly the rows at
\* the positions where the class is not -1, in their order; this holds for a
\* box set without confidence too.
C11_StripsEveryField ==
    (stage = "stripped"
       /\ Len(arg.boxes.rows) = Len(arg.classes.rows)
       /\ (HasConfidence(arg) => Len(arg.confidence.rows) = Len(arg.classes.rows)))
      => /\ ~IsError(stripped)
         /\ DOMAIN stripped = DOMAIN arg
         /\ \A field \in DOMAIN arg :
              /\ stripped[field].rank = arg[field].rank
              /\ stripped[field].rows =
                   RowsOfRealBoxes(arg[field].rows, arg.classes.rows,
                                   Len(arg.classes.rows))

\* the parallel sequences of a box set have unequal lengths
Misaligned(bounding_boxes) ==
    \/ Len(bounding_boxes.boxes.rows) # Len(bounding_boxes.classes.rows)
    \/ Len(bounding_boxes.confidence.rows) # Len(bounding_boxes.classes.rows)

\* C14: filter_out_sentinels, get_boxes_for_image and order_by_confidence fail
\* on a box set whose boxes, classes and confidence have unequal lengths,
\* instead of returning a result (stated here as: they raise some error).
C14_MisalignedRejected ==
    /\ (stage = "stripped" /\ Misaligned(arg)) => IsError(stripped)
    /\ (stage = "sliced" /\ Misaligned(box_sets[1])) => IsError(image)
    /\ (stage = "ordered" /\ arg.boxes.rank = 2 /\ Misaligned(arg))
         => IsError(ordered)

----------------------------------------------------------------------------
(* Properties of all operations *)

\* C13: no operation changes what it was handed: the IoU table and the
\* threshold of match_boxes, the tensor handed to a filter, the list of box
\* sets handed to to_sentinel_padded_bounding_box_tensor, and the batch, the
\* image and the stripped box set that later operations are handed, stay as
\* they are over every step.
C13_InputsNotMutated ==
    [][/\ ious' = ious
       /\ threshold' = threshold
       /\ boxes' = boxes
       /\ box_sets' = box_sets
       /\ batch # NoValue => batch' = batch
       /\ image # NoValue => image' = image
       /\ stripped # NoValue => stripped' = stripped]_vars

\* C13 witness: match_boxes has returned after writing a match for a
\* detection whose IoU with its ground truth is positive.
C13_Witness ==
    /\ pc = "done"
    /\ \E d \in Detections :
         /\ result.matches[d] # -1
         /\ IoUAt(result.matches[d], d) > 0

----------------------------------------------------------------------------
(* Properties of concurrent match_boxes calls *)

\* the local variables a call goes through when it runs alone from s
RECURSIVE Trajectory(_)
Trajectory(s) == IF s.pc = "done" THEN {s} ELSE {s} \cup Trajectory(LoopStep(s))

\* what a call returns when it runs alone from s
RECURSIVE RunAlone(_)
RunAlone(s) == IF s.pc = "done" THEN s.result ELSE RunAlone(LoopStep(s))

====
